---- MODULE Spec2Model ----
(***************************************************************************)
(* View-state controller of src/components/InputTabs.tsx (React component  *)
(* InputTabs): the component's useState cells, its event handlers, the     *)
(* controls each render branch offers, and the analysis request that       *)
(* handleSubmit leaves pending across its two awaits (fetch, then          *)
(* response.json()).                                                       *)
(*                                                                         *)
(* Strings the code inspects (youtubeUrl) are sequences of characters.     *)
(* A 2xx body is either a value of the declared type AnalysisData or text  *)
(* that response.json() rejects.                                           *)
(***************************************************************************)
EXTENDS Integers, Sequences, FiniteSets, TLC

\* ---------------------------------------------------------------- bounds
MaxUrlLen == 2
MaxTimeline == 3
MaxTranscriptLen == 2
MaxDuration == 3

\* ------------------------------------------------------------- constants
Null == "null"
Chars == {" ", "a"}
Whitespace == {" "}
Tabs == {"youtube", "document"}
Sections == {"summarize", "viral", "recommendation"}
Statuses == {200, 204, 404, 500}
\* values of a JSON body / of the analysisData cell, tagged by kind
NoData == [kind |-> "null"]
Unparsable == [kind |-> "unparsable"]
ValidationMsg == "Please enter a YouTube URL"
FailMsg == "Failed to analyze content. Please check your connection and try again."

Urls == UNION {[1..n -> Chars] : n \in 0..MaxUrlLen}

\* AnalysisData: only the timeline (one entry per rendered row) is kept.
AnalysisDatas ==
  {[kind |-> "AnalysisData", timeline_summary |-> [k \in 1..n |-> k]] :
     n \in 0..MaxTimeline}
Bodies == AnalysisDatas \cup {Unparsable}

VARIABLES activeTab, activeSection, summaryState, expandedTimeline,
          youtubeUrl, analysisData, error, inflight, lastOp

vars == <<activeTab, activeSection, summaryState, expandedTimeline,
          youtubeUrl, analysisData, error, inflight, lastOp>>

\* the two most recent calls of the SummarizerService stub, oldest first
VARIABLE stubCalls

allVars == <<vars, stubCalls>>

\* ------------------------------------------------------------ pure parts
RECURSIVE TrimStart(_)
TrimStart(s) ==
  IF s # <<>> /\ Head(s) \in Whitespace THEN TrimStart(Tail(s)) ELSE s

RECURSIVE TrimEnd(_)
TrimEnd(s) ==
  IF s # <<>> /\ s[Len(s)] \in Whitespace
    THEN TrimEnd(SubSeq(s, 1, Len(s) - 1)) ELSE s

\* String.prototype.trim
Trim(s) == TrimEnd(TrimStart(s))

\* the guard of handleSubmit's early return
UrlMissingAnyTab(tab, url) == Trim(url) = <<>>
UrlMissingNoTrim(tab, url) == tab = "youtube" /\ url = <<>>
UrlMissing(tab, url) == tab = "youtube" /\ Trim(url) = <<>>

\* response.ok
ResponseOkLoose(status) == status >= 200
ResponseOk(status) == status >= 200 /\ status <= 299

\* Array.prototype.includes / filter(i => i !== index) / [...prev, index]
Includes(arr, x) == \E k \in 1..Len(arr) : arr[k] = x
RECURSIVE FilterOut(_, _)
FilterOut(arr, x) ==
  IF arr = <<>> THEN <<>>
  ELSE IF Head(arr) = x THEN FilterOut(Tail(arr), x)
       ELSE <<Head(arr)>> \o FilterOut(Tail(arr), x)

toggleTimelineClear(prev, index) ==
  IF Includes(prev, index) THEN <<>> ELSE Append(prev, index)
toggleTimeline(prev, index) ==
  IF Includes(prev, index) THEN FilterOut(prev, index) ELSE Append(prev, index)

RemoveAt(seq, k) == SubSeq(seq, 1, k - 1) \o SubSeq(seq, k + 1, Len(seq))

\* ------------------------------------------------------ what is rendered
\* the result view replaces the form
ResultView == summaryState.showSummary /\ analysisData # NoData
FormView == ~ResultView
\* tab header buttons: part of the form whatever isLoading is
TabButtonsRendered == FormView
\* the spinner replaces the URL input and both submit buttons
SubmitRenderedAlways == FormView
SubmitRendered == FormView /\ ~summaryState.isLoading
UrlInputRendered == FormView /\ ~summaryState.isLoading /\ activeTab = "youtube"
SectionButtonsRendered == ResultView
\* timeline rows and "Back to Input" are inside the summarize section only
TimelineRowRendered(index) ==
  /\ ResultView /\ activeSection = "summarize"
  /\ index \in 0..(Len(analysisData.timeline_summary) - 1)
BackButtonRendered == ResultView /\ activeSection = "summarize"

\* ------------------------------------------------------------------ Init
Init ==
  /\ activeTab = "youtube"
  /\ activeSection = "summarize"
  /\ summaryState = [isLoading |-> FALSE, showSummary |-> FALSE, type |-> Null]
  /\ expandedTimeline = <<0>>
  /\ youtubeUrl = <<>>
  /\ analysisData = NoData
  /\ error = Null
  /\ inflight = <<>>
  /\ lastOp = "init"
  /\ stubCalls = <<>>

\* --------------------------------------------------------------- actions
SetActiveTab(tab) ==
  /\ TabButtonsRendered
  /\ UNCHANGED stubCalls
  /\ activeTab' = tab
  /\ lastOp' = "setActiveTab"
  /\ UNCHANGED <<activeSection, summaryState, expandedTimeline, youtubeUrl,
                 analysisData, error, inflight>>

SetYoutubeUrl(value) ==
  /\ UrlInputRendered
  /\ UNCHANGED stubCalls
  /\ youtubeUrl' = value
  /\ lastOp' = "setYoutubeUrl"
  /\ UNCHANGED <<activeTab, activeSection, summaryState, expandedTimeline,
                 analysisData, error, inflight>>

\* handleSubmit up to its first await: validation, or state update + fetch
HandleSubmit ==
  /\ SubmitRendered
  /\ UNCHANGED stubCalls
  /\ lastOp' = "handleSubmit"
  /\ IF UrlMissing(activeTab, youtubeUrl)
       THEN /\ error' = ValidationMsg
            /\ UNCHANGED <<summaryState, inflight>>
       ELSE /\ error' = Null
            /\ summaryState' = [isLoading |-> TRUE, showSummary |-> FALSE,
                                type |-> activeTab]
            /\ inflight' = Append(inflight,
                 [youtube_url |-> youtubeUrl, tab |-> activeTab,
                  phase |-> "fetch", body |-> NoData])
  /\ UNCHANGED <<activeTab, activeSection, expandedTimeline, youtubeUrl,
                 analysisData>>

\* the catch block of handleSubmit, for the call at position k
CatchKeepLoading(k) ==
  /\ error' = FailMsg
  /\ summaryState' = [isLoading |-> TRUE, showSummary |-> FALSE, type |-> Null]
  /\ inflight' = RemoveAt(inflight, k)
  /\ UNCHANGED <<activeTab, activeSection, expandedTimeline, youtubeUrl,
                 analysisData>>
Catch(k) ==
  /\ error' = FailMsg
  /\ summaryState' = [isLoading |-> FALSE, showSummary |-> FALSE, type |-> Null]
  /\ inflight' = RemoveAt(inflight, k)
  /\ UNCHANGED <<activeTab, activeSection, expandedTimeline, youtubeUrl,
                 analysisData>>

\* fetch() rejects: transport failure
FetchReject(k) ==
  /\ k \in 1..Len(inflight)
  /\ inflight[k].phase = "fetch"
  /\ UNCHANGED stubCalls
  /\ lastOp' = "fetchRejected"
  /\ Catch(k)

\* fetch() resolves with a response; a non-ok status is thrown into catch
FetchResolve(k, status, body) ==
  /\ k \in 1..Len(inflight)
  /\ inflight[k].phase = "fetch"
  /\ UNCHANGED stubCalls
  /\ lastOp' = IF status \in 200..299 THEN "fetch2xx" ELSE "fetchNon2xx"
  /\ IF ~ResponseOk(status)
       THEN Catch(k)
       ELSE /\ inflight' = [inflight EXCEPT ![k].phase = "json",
                                            ![k].body = body]
            /\ UNCHANGED <<activeTab, activeSection, summaryState,
                           expandedTimeline, youtubeUrl, analysisData, error>>

\* response.json() settles: parsed data is stored, a parse error is caught
JsonSettleNoStore(k) ==
  /\ k \in 1..Len(inflight)
  /\ inflight[k].phase = "json"
  /\ UNCHANGED stubCalls
  /\ IF inflight[k].body = Unparsable
       THEN /\ lastOp' = "jsonRejected"
            /\ Catch(k)
       ELSE /\ lastOp' = "jsonParsed"
            /\ analysisData' = analysisData
            /\ summaryState' = [isLoading |-> FALSE, showSummary |-> TRUE,
                                type |-> inflight[k].tab]
            /\ inflight' = RemoveAt(inflight, k)
            /\ UNCHANGED <<activeTab, activeSection, expandedTimeline,
                           youtubeUrl, error>>
JsonSettle(k) ==
  /\ k \in 1..Len(inflight)
  /\ inflight[k].phase = "json"
  /\ UNCHANGED stubCalls
  /\ IF inflight[k].body = Unparsable
       THEN /\ lastOp' = "jsonRejected"
            /\ Catch(k)
       ELSE /\ lastOp' = "jsonParsed"
            /\ analysisData' = inflight[k].body
            /\ summaryState' = [isLoading |-> FALSE, showSummary |-> TRUE,
                                type |-> inflight[k].tab]
            /\ inflight' = RemoveAt(inflight, k)
            /\ UNCHANGED <<activeTab, activeSection, expandedTimeline,
                           youtubeUrl, error>>

HandleBackKeepData ==
  /\ BackButtonRendered
  /\ UNCHANGED stubCalls
  /\ summaryState' = [isLoading |-> FALSE, showSummary |-> FALSE, type |-> Null]
  /\ activeSection' = "summarize"
  /\ analysisData' = analysisData
  /\ error' = Null
  /\ lastOp' = "handleBack"
  /\ UNCHANGED <<activeTab, expandedTimeline, youtubeUrl, inflight>>
HandleBack ==
  /\ BackButtonRendered
  /\ UNCHANGED stubCalls
  /\ summaryState' = [isLoading |-> FALSE, showSummary |-> FALSE, type |-> Null]
  /\ activeSection' = "summarize"
  /\ analysisData' = NoData
  /\ error' = Null
  /\ lastOp' = "handleBack"
  /\ UNCHANGED <<activeTab, expandedTimeline, youtubeUrl, inflight>>

ToggleTimeline(index) ==
  /\ TimelineRowRendered(index)
  /\ UNCHANGED stubCalls
  /\ expandedTimeline' = toggleTimeline(expandedTimeline, index)
  /\ lastOp' = "toggleTimeline"
  /\ UNCHANGED <<activeTab, activeSection, summaryState, youtubeUrl,
                 analysisData, error, inflight>>

SetActiveSectionResetTimeline(section) ==
  /\ SectionButtonsRendered
  /\ UNCHANGED stubCalls
  /\ activeSection' = section
  /\ expandedTimeline' = <<0>>
  /\ lastOp' = "setActiveSection"
  /\ UNCHANGED <<activeTab, summaryState, youtubeUrl,
                 analysisData, error, inflight>>
SetActiveSection(section) ==
  /\ SectionButtonsRendered
  /\ UNCHANGED stubCalls
  /\ activeSection' = section
  /\ lastOp' = "setActiveSection"
  /\ UNCHANGED <<activeTab, summaryState, expandedTimeline, youtubeUrl,
                 analysisData, error, inflight>>

Settle ==
  \/ \E k \in 1..Len(inflight) : FetchReject(k)
  \/ \E k \in 1..Len(inflight), status \in Statuses, body \in Bodies :
       FetchResolve(k, status, body)
  \/ \E k \in 1..Len(inflight) : JsonSettle(k)

Next ==
  \/ \E tab \in Tabs : SetActiveTab(tab)
  \/ \E value \in Urls : SetYoutubeUrl(value)
  \/ HandleSubmit
  \/ Settle
  \/ HandleBack
  \/ \E index \in 0..(MaxTimeline - 1) : ToggleTimeline(index)
  \/ \E section \in Sections : SetActiveSection(section)

Spec == Init /\ [][Next]_allVars

\* every pending await of handleSubmit eventually settles
FairSpec == Spec /\ WF_vars(Settle)

\* ------------------------------------------- SummarizerService stub (api)
Transcripts == UNION {[1..n -> Chars] : n \in 0..MaxTranscriptLen}
Durations == 0..MaxDuration

\* str.strip() on a text held as a sequence of whitespace and text pieces
PyWhitespace == {" ", "\n"}
RECURSIVE PyLStrip(_)
PyLStrip(s) ==
  IF s # <<>> /\ Head(s) \in PyWhitespace THEN PyLStrip(Tail(s)) ELSE s
RECURSIVE PyRStrip(_)
PyRStrip(s) ==
  IF s # <<>> /\ s[Len(s)] \in PyWhitespace
    THEN PyRStrip(SubSeq(s, 1, Len(s) - 1)) ELSE s
PyStrip(s) == PyRStrip(PyLStrip(s))

\* the triple-quoted literal of generate_summary
mock_summary ==
  << "\n", " ",
     "This comprehensive guide explores the fundamental concepts of machine learning, covering supervised and",
     " ", "\n", " ",
     "unsupervised learning techniques, model evaluation, and practical applications in real-world scenarios.",
     " ", "\n", " ",
     "The video provides clear explanations of key algorithms like linear regression and decision trees,",
     " ", "\n", " ",
     "while emphasizing best practices for avoiding common pitfalls like overfitting and underfitting.",
     "\n", " " >>

generate_summaryEcho(transcript) ==
  IF transcript = <<>> THEN PyStrip(mock_summary) ELSE transcript
generate_summary(transcript) == PyStrip(mock_summary)

\* timestamps are kept character by character
TimelineItem(timestamp, summary) == [timestamp |-> timestamp, summary |-> summary]
mock_timeline ==
  << TimelineItem(
       <<"0", "0", ":", "0", "0", " ", "-", " ", "0", "1", ":", "0", "0">>,
       "Introduction to machine learning concepts and why they matter in today's technology landscape."),
     TimelineItem(
       <<"0", "1", ":", "0", "0", " ", "-", " ", "0", "2", ":", "3", "0">>,
       "Deep dive into supervised learning algorithms including linear regression and decision trees."),
     TimelineItem(
       <<"0", "2", ":", "3", "0", " ", "-", " ", "0", "4", ":", "0", "0">>,
       "Practical examples of implementing basic ML models using Python and popular libraries."),
     TimelineItem(
       <<"0", "4", ":", "0", "0", " ", "-", " ", "0", "5", ":", "1", "5">>,
       "Discussion of unsupervised learning techniques and clustering algorithms."),
     TimelineItem(
       <<"0", "5", ":", "1", "5", " ", "-", " ", "0", "6", ":", "3", "0">>,
       "Best practices for model evaluation, cross-validation, and avoiding overfitting.") >>

generate_timeline_summaryByDuration(transcript, duration_seconds) ==
  IF duration_seconds = 0 THEN <<>> ELSE mock_timeline
generate_timeline_summary(transcript, duration_seconds) == mock_timeline

\* the stub keeps no state; stubCalls records its two latest calls
Latest2(calls) ==
  IF Len(calls) > 2 THEN SubSeq(calls, Len(calls) - 1, Len(calls)) ELSE calls

CallGenerateSummary(transcript) ==
  /\ stubCalls' = Latest2(Append(stubCalls,
       [op |-> "generate_summary", transcript |-> transcript,
        result |-> generate_summary(transcript)]))
  /\ UNCHANGED vars

CallGenerateTimelineSummary(transcript, duration_seconds) ==
  /\ stubCalls' = Latest2(Append(stubCalls,
       [op |-> "generate_timeline_summary", transcript |-> transcript,
        duration_seconds |-> duration_seconds,
        result |-> generate_timeline_summary(transcript, duration_seconds)]))
  /\ UNCHANGED vars

StubNext ==
  \/ \E transcript \in Transcripts : CallGenerateSummary(transcript)
  \/ \E transcript \in Transcripts, duration_seconds \in Durations :
       CallGenerateTimelineSummary(transcript, duration_seconds)

\* the service called on its own, the controller left in its initial state
StubSpec == Init /\ [][StubNext]_allVars

\* ------------------------------------------------------------ properties
Elems(arr) == {arr[k] : k \in 1..Len(arr)}
AllWhitespace(s) == \A k \in 1..Len(s) : s[k] = " "
IdleState == [isLoading |-> FALSE, showSummary |-> FALSE, type |-> Null]

\* C1: a handleSubmit on the youtube tab with an empty or whitespace-only
\* URL issues no request, sets the validation message and leaves
\* isLoading = false and showSummary = false.
C1_EmptyUrlRejected ==
  [][(lastOp' = "handleSubmit" /\ activeTab = "youtube"
        /\ AllWhitespace(youtubeUrl))
      => /\ inflight' = inflight
         /\ error' = ValidationMsg
         /\ ~summaryState'.isLoading
         /\ ~summaryState'.showSummary]_vars

C1_Witness ==
  /\ lastOp = "handleSubmit"
  /\ activeTab = "youtube"
  /\ youtubeUrl = <<" ">>
  /\ error = ValidationMsg
  /\ inflight = <<>>

\* C2: when the pending request's 2xx body is parsed, the controller goes
\* from Loading to the result view: analysisData is that body, isLoading is
\* false, showSummary is true and the selected section is 'summarize'.
C2_SuccessEntersResult ==
  [][lastOp' = "jsonParsed"
      => /\ summaryState.isLoading
         /\ Len(inflight) = 1
         /\ analysisData' = inflight[1].body
         /\ analysisData' \in AnalysisDatas
         /\ ~summaryState'.isLoading
         /\ summaryState'.showSummary
         /\ activeSection' = "summarize"
         /\ inflight' = <<>>]_vars

C2_Witness ==
  /\ lastOp = "jsonParsed"
  /\ ResultView
  /\ Len(analysisData.timeline_summary) = 2
  /\ expandedTimeline = <<1>>

\* C3: right after a pending request ends by transport failure, non-2xx
\* status or unparsable body, the form is shown with isLoading = false,
\* showSummary = false, type = null, the generic failure message, and
\* analysisData = null.
C3_FailureReturnsToForm ==
  lastOp \in {"fetchRejected", "fetchNon2xx", "jsonRejected"}
    => /\ summaryState = IdleState
       /\ error = FailMsg
       /\ analysisData = NoData
       /\ inflight = <<>>

C3_Witness ==
  /\ lastOp = "jsonRejected"
  /\ error = FailMsg
  /\ youtubeUrl = <<"a">>

\* C4: isLoading never holds without a request in flight, and (the pending
\* awaits settling) every Loading state leads to one with isLoading = false
\* that is the result view or the form with the failure message.
C4_LoadingIsLeft ==
  /\ [](summaryState.isLoading => Len(inflight) >= 1)
  /\ (summaryState.isLoading
        ~> (/\ ~summaryState.isLoading
            /\ \/ ResultView
               \/ FormView /\ error = FailMsg))

C4_Witness ==
  /\ lastOp = "fetchNon2xx"
  /\ ~summaryState.isLoading
  /\ FormView
  /\ error = FailMsg

\* C5: right after handleBack the controller is idle with no residual
\* result: summaryState is {false, false, null}, analysisData is null,
\* activeSection is 'summarize' and error is null.
C5_BackResets ==
  lastOp = "handleBack"
    => /\ summaryState = IdleState
       /\ analysisData = NoData
       /\ activeSection = "summarize"
       /\ error = Null
       /\ FormView
       /\ inflight = <<>>

C5_Witness ==
  /\ lastOp = "handleBack"
  /\ Len(expandedTimeline) >= 2
  /\ analysisData = NoData

\* C6 (as claimed): whenever the result view is entered after a successful
\* response, exactly entry 0 is expanded.
C6_FirstEntryExpandedOnEntry ==
  lastOp = "jsonParsed" => Elems(expandedTimeline) = {0}

\* C7: for every index i, toggling i twice gives the same set of expanded
\* indices, and toggling i changes the membership of no j # i.
C7_ToggleInvolution ==
  \A i \in 0..(MaxTimeline - 1) :
    /\ Elems(toggleTimeline(toggleTimeline(expandedTimeline, i), i))
         = Elems(expandedTimeline)
    /\ (i \in Elems(toggleTimeline(expandedTimeline, i)))
         <=> (i \notin Elems(expandedTimeline))
    /\ \A j \in (0..(MaxTimeline - 1)) \ {i} :
         (j \in Elems(toggleTimeline(expandedTimeline, i)))
           <=> (j \in Elems(expandedTimeline))

C7_Witness ==
  /\ lastOp = "toggleTimeline"
  /\ expandedTimeline = <<1, 0>>

\* C8: at most one analysis request is in flight, and while one is in
\* flight isLoading holds and no submit control is offered.
C8_SingleInFlight ==
  /\ Len(inflight) <= 1
  /\ inflight # <<>> => (summaryState.isLoading /\ ~ENABLED HandleSubmit)

C8_Witness ==
  /\ Len(inflight) = 1
  /\ inflight[1].phase = "fetch"
  /\ lastOp = "handleSubmit"
  /\ summaryState.isLoading

\* C9 (as claimed): in the result view, whichever section is selected,
\* handleBack is an enabled user action.
C9_BackFromEverySection ==
  ResultView => ENABLED HandleBack

\* C10 (as claimed): while isLoading holds no step edits youtubeUrl, changes
\* activeTab or issues a request.
C10_LoadingInputsDisabled ==
  [][summaryState.isLoading
      => /\ youtubeUrl' = youtubeUrl
         /\ activeTab' = activeTab
         /\ Len(inflight') <= Len(inflight)]_vars

\* C11: a setActiveSection step changes only activeSection: summaryState,
\* analysisData, error, expandedTimeline, youtubeUrl and activeTab keep
\* their values and no request is issued.
C11_SectionSwitchFrame ==
  [][lastOp' = "setActiveSection"
      => /\ activeSection' \in Sections
         /\ UNCHANGED <<summaryState, analysisData, error, expandedTimeline,
                        youtubeUrl, activeTab, inflight>>]_vars

C11_Witness ==
  /\ lastOp = "setActiveSection"
  /\ activeSection = "viral"
  /\ ResultView
  /\ Elems(expandedTimeline) = {0, 1}

\* C12: analysisData is non-null only while the result is shown:
\* analysisData # null implies showSummary = true and isLoading = false.
C12_DataOnlyInResult ==
  analysisData # NoData
    => summaryState.showSummary /\ ~summaryState.isLoading

C12_Witness ==
  /\ analysisData # NoData
  /\ summaryState.showSummary
  /\ summaryState.type = "document"
  /\ activeSection = "recommendation"

\* C13: every pending request issued from the youtube tab carries a
\* youtube_url with a non-empty trimmed value; a handleSubmit on the
\* document tab always goes to Loading and issues a request carrying the
\* current youtubeUrl, empty or not; so a request with an empty youtube_url
\* comes from the document tab only.
C13_NonEmptyCheckUrlModeOnly ==
  /\ [](\A k \in 1..Len(inflight) :
         /\ inflight[k].tab = "youtube"
              => ~AllWhitespace(inflight[k].youtube_url)
         /\ inflight[k].youtube_url = <<>> => inflight[k].tab = "document")
  /\ [][(lastOp' = "handleSubmit" /\ activeTab = "document")
         => /\ summaryState'.isLoading
            /\ Len(inflight') = Len(inflight) + 1
            /\ inflight'[Len(inflight')].youtube_url = youtubeUrl
            /\ inflight'[Len(inflight')].tab = "document"]_vars

C13_Witness ==
  /\ lastOp = "handleSubmit"
  /\ Len(inflight) = 1
  /\ inflight[1].tab = "document"
  /\ inflight[1].youtube_url = <<>>
  /\ summaryState.isLoading

Digit(c) ==
  CASE c = "0" -> 0 [] c = "1" -> 1 [] c = "2" -> 2 [] c = "3" -> 3
    [] c = "4" -> 4 [] c = "5" -> 5 [] c = "6" -> 6 [] c = "7" -> 7
    [] c = "8" -> 8 [] c = "9" -> 9
\* "MM:SS" starting at position p of a timestamp, in seconds
ClockAt(ts, p) ==
  (Digit(ts[p]) * 10 + Digit(ts[p + 1])) * 60
    + Digit(ts[p + 3]) * 10 + Digit(ts[p + 4])
RangeStart(ts) == ClockAt(ts, 1)
RangeEnd(ts) == ClockAt(ts, 9)
Chronological(timeline) ==
  /\ \A k \in 1..Len(timeline) :
       /\ Len(timeline[k].timestamp) = 13
       /\ RangeStart(timeline[k].timestamp) < RangeEnd(timeline[k].timestamp)
  /\ \A k \in 1..(Len(timeline) - 1) :
       RangeEnd(timeline[k].timestamp) <= RangeStart(timeline[k + 1].timestamp)

\* C14: the stub's results do not depend on its inputs: any two recorded
\* calls of the same operation have the same result, whatever their
\* transcripts and durations; a summary is a non-empty stripped paragraph;
\* a timeline has exactly five items with chronological timestamp ranges.
C14_StubIgnoresInput ==
  /\ \A i, j \in 1..Len(stubCalls) :
       stubCalls[i].op = stubCalls[j].op
         => stubCalls[i].result = stubCalls[j].result
  /\ \A i \in 1..Len(stubCalls) :
       IF stubCalls[i].op = "generate_summary"
         THEN /\ stubCalls[i].result # <<>>
              /\ stubCalls[i].result # stubCalls[i].transcript
              /\ Head(stubCalls[i].result) \notin PyWhitespace
         ELSE /\ Len(stubCalls[i].result) = 5
              /\ Chronological(stubCalls[i].result)

C14_Witness ==
  /\ Len(stubCalls) = 2
  /\ stubCalls[1].op = "generate_timeline_summary"
  /\ stubCalls[2].op = "generate_timeline_summary"
  /\ stubCalls[1].transcript # stubCalls[2].transcript
  /\ stubCalls[1].duration_seconds = 0
  /\ stubCalls[2].duration_seconds = MaxDuration

====
